---------------------------- MODULE Spec2Model ----------------------------
(***************************************************************************)
(* Model of src/server.py: a single-slot relay.  One (nonce, data) pair is *)
(* kept in memory (app.state.payload / app.state.updated_at) under an      *)
(* asyncio.Lock and mirrored best-effort to STATE_FILE.                    *)
(*                                                                         *)
(* Scheduling.  Every handler is an `async def` coroutine run on the one   *)
(* event loop.  Its only await is `async with app.state.lock`, and no      *)
(* coroutine awaits anything while it holds the lock, so a handler, once   *)
(* it has been entered, runs to its return without another handler running *)
(* in between: concurrent requests are handled one after the other, in any *)
(* order.  cur is the coroutine being run and cur.pc its next step; when   *)
(* cur.pc = "done" it is the last request handled, with its response.  The *)
(* process can be killed between any two steps (Crash).                    *)
(*                                                                         *)
(* Optional values (Python None) are sequences: <<>> is None, <<x>> is x.  *)
(* A string is [c, n]: content tag c and length n (len(s) == n).           *)
(***************************************************************************)
EXTENDS Integers, Sequences, FiniteSets, TLC

VARIABLES env_gate,    \* os.getenv("GATE_PASS"): None when unset
          payload,     \* app.state.payload
          updated_at,  \* app.state.updated_at
          lock,        \* app.state.lock is held
          file,        \* content of STATE_FILE, None when it does not exist
          tmp,         \* content of STATE_FILE + ".tmp", None when missing
          cur,         \* the coroutine the event loop is running
          lastStored,  \* history: what the last assignment to payload came from
          lastOK,      \* history: the last mutation that has returned OK
          boot         \* history: the last start of the process, kept until
                       \* the first request after it has been answered

vars == <<env_gate, payload, updated_at, lock, file, tmp, cur, lastStored,
          lastOK, boot>>

-----------------------------------------------------------------------------
(* Bounds of the model *)
MaxTime == 2

(* Program constants *)
MAX_NONCE_LEN == 4096
MAX_DATA_LEN == 16384
C_OK == 100
C_DENY == 301
C_BAD == 404
C_NR == 503

None == <<>>
Some(x) == <<x>>
Get(o) == o[1]

-----------------------------------------------------------------------------
(* Strings *)
Str(c, n) == [c |-> c, n |-> n]
StrLen(s) == s.n
EmptyStr == Str("", 0)

(* Credentials are sequences of code points. *)
DEFAULT_PASS == <<67, 72, 65, 78, 71, 69, 95, 77, 69>>   \* "CHANGE_ME"
CustomPass == <<115, 51>>                                 \* "s3"

(* GATE_PASS = os.getenv("GATE_PASS", ""); if not GATE_PASS: "CHANGE_ME" *)
GATE_PASS == IF env_gate = None \/ Get(env_gate) = <<>> THEN DEFAULT_PASS
             ELSE Get(env_gate)

IsAscii(s) == \A i \in 1..Len(s) : s[i] < 128

(* hmac.compare_digest on two str: TypeError unless both are ASCII *)
CompareDigestRaises(a, b) == ~IsAscii(a) \/ ~IsAscii(b)
CompareDigest(a, b) == a = b

(* _auth: "ok", "deny" (HTTPException 403) or "error" (TypeError escapes) *)
_auth(x_pass, secret) ==
    IF x_pass = None \/ Get(x_pass) = <<>> THEN "deny"
    ELSE IF CompareDigestRaises(Get(x_pass), secret) THEN "error"
    ELSE IF CompareDigest(Get(x_pass), secret) THEN "ok"
    ELSE "deny"

(* _validate_payload: 0 when accepted, else the HTTP status raised *)
ValidateOffByOne(nonce, data) ==
    IF StrLen(nonce) = 0 \/ StrLen(data) = 0 THEN 400
    ELSE IF StrLen(nonce) >= MAX_NONCE_LEN \/ StrLen(data) >= MAX_DATA_LEN THEN 413
    ELSE 0
_validate_payload(nonce, data) ==
    IF StrLen(nonce) = 0 \/ StrLen(data) = 0 THEN 400
    ELSE IF StrLen(nonce) > MAX_NONCE_LEN \/ StrLen(data) > MAX_DATA_LEN THEN 413
    ELSE 0

(* obj = {"nonce": payload.nonce, "data": payload.data} *)
MakeObjNonceTwice(nonce, data) == [nonce |-> nonce, data |-> nonce]
MakeObj(nonce, data) == [nonce |-> nonce, data |-> data]

-----------------------------------------------------------------------------
(* The JSON text of the mirror file, as a sequence of tokens *)
Punct(x) == [t |-> x, s |-> EmptyStr, v |-> 0]
StrTok(s) == [t |-> "str", s |-> s, v |-> 0]
NumTok(v) == [t |-> "num", s |-> EmptyStr, v |-> v]
JunkTok == Punct("junk")

KeyNonce == Str("nonce", 5)
KeyData == Str("data", 4)

(* json.dump(obj, f, separators=(",", ":")) of a dict of two str *)
JsonDumpSwapped(obj) ==
    << Punct("{"), StrTok(KeyNonce), Punct(":"), StrTok(obj.data), Punct(","),
       StrTok(KeyData), Punct(":"), StrTok(obj.nonce), Punct("}") >>
JsonDump(obj) ==
    << Punct("{"), StrTok(KeyNonce), Punct(":"), StrTok(obj.nonce), Punct(","),
       StrTok(KeyData), Punct(":"), StrTok(obj.data), Punct("}") >>

(* Values json.loads returns; m holds the members of a dict in file order *)
JStr(s) == [k |-> "str", s |-> s, v |-> 0, m |-> <<>>]
JNum(v) == [k |-> "num", s |-> EmptyStr, v |-> v, m |-> <<>>]
JList == [k |-> "list", s |-> EmptyStr, v |-> 0, m |-> <<>>]
JDict(m) == [k |-> "dict", s |-> EmptyStr, v |-> 0, m |-> m]
ParseError == [k |-> "error", s |-> EmptyStr, v |-> 0, m |-> <<>>]

IsScalarTok(tok) == tok.t \in {"str", "num"}
ScalarOf(tok) == IF tok.t = "str" THEN JStr(tok.s) ELSE JNum(tok.v)

(* members of an object from position i on: string ":" value ("," | "}") *)
RECURSIVE ParseMembers(_, _, _)
ParseMembers(raw, i, acc) ==
    IF i + 3 > Len(raw) THEN ParseError
    ELSE IF raw[i].t # "str" \/ raw[i+1].t # ":" \/ ~IsScalarTok(raw[i+2])
    THEN ParseError
    ELSE LET acc2 == Append(acc, <<raw[i].s, ScalarOf(raw[i+2])>>) IN
         IF raw[i+3].t = "}"
         THEN (IF i + 3 = Len(raw) THEN JDict(acc2) ELSE ParseError)
         ELSE IF raw[i+3].t = ","
         THEN ParseMembers(raw, i + 4, acc2)
         ELSE ParseError

(* json.loads(raw): ParseError stands for the JSONDecodeError it raises *)
json_loads(raw) ==
    IF Len(raw) = 0 THEN ParseError
    ELSE IF raw[1].t = "{"
    THEN (IF Len(raw) = 2 /\ raw[2].t = "}" THEN JDict(<<>>)
          ELSE ParseMembers(raw, 2, <<>>))
    ELSE IF raw[1].t = "["
    THEN (IF Len(raw) = 2 /\ raw[2].t = "]" THEN JList ELSE ParseError)
    ELSE IF IsScalarTok(raw[1]) /\ Len(raw) = 1 THEN ScalarOf(raw[1])
    ELSE ParseError

(* key in obj, obj[key]: a repeated key keeps its last value *)
HasKey(obj, key) == \E i \in 1..Len(obj.m) : obj.m[i][1] = key
Lookup(obj, key) ==
    LET last == CHOOSE i \in 1..Len(obj.m) :
                    /\ obj.m[i][1] = key
                    /\ \A j \in (i+1)..Len(obj.m) : obj.m[j][1] # key
    IN obj.m[last][2]

(* _best_effort_load; readOk = FALSE when exists()/read_text() raise *)
LoadNoChecks(f, readOk) ==
    IF f = None \/ ~readOk THEN None
    ELSE LET obj == json_loads(Get(f)) IN
         IF obj.k # "dict" THEN None
         ELSE IF ~HasKey(obj, KeyNonce) \/ ~HasKey(obj, KeyData) THEN None
         ELSE Some(MakeObj(Lookup(obj, KeyNonce).s, Lookup(obj, KeyData).s))
_best_effort_load(f, readOk) ==
    IF f = None THEN None
    ELSE IF ~readOk THEN None
    ELSE LET obj == json_loads(Get(f)) IN
         IF obj.k = "error" THEN None
         ELSE IF obj.k # "dict" THEN None
         ELSE IF ~HasKey(obj, KeyNonce) \/ ~HasKey(obj, KeyData) THEN None
         ELSE IF Lookup(obj, KeyNonce).k # "str" \/ Lookup(obj, KeyData).k # "str"
         THEN None
         ELSE IF StrLen(Lookup(obj, KeyNonce).s) > MAX_NONCE_LEN
                 \/ StrLen(Lookup(obj, KeyData).s) > MAX_DATA_LEN
         THEN None
         ELSE Some(MakeObj(Lookup(obj, KeyNonce).s, Lookup(obj, KeyData).s))

-----------------------------------------------------------------------------
(* Inputs *)
FlipBit(s, i, b) ==
    [s EXCEPT ![i] = IF (@ \div (2^b)) % 2 = 1 THEN @ - 2^b ELSE @ + 2^b]

(* the header is absent, empty, correct, or the secret with one bit flipped *)
Credentials(secret) ==
    { None, Some(<<>>), Some(secret),
      Some(FlipBit(secret, Len(secret), 0)), Some(FlipBit(secret, 1, 7)) }

(* request bodies: two pairs at the two ends of the accepted lengths, and
   one body for each way a field can be empty or too long *)
Bodies ==
    { [nonce |-> Str("n1", 1), data |-> Str("d1", 1)],
      [nonce |-> Str("n2", MAX_NONCE_LEN), data |-> Str("d2", MAX_DATA_LEN)],
      [nonce |-> EmptyStr, data |-> Str("d1", 1)],
      [nonce |-> Str("n1", 1), data |-> EmptyStr],
      [nonce |-> Str("n3", MAX_NONCE_LEN + 1), data |-> Str("d1", 1)],
      [nonce |-> Str("n1", 1), data |-> Str("d3", MAX_DATA_LEN + 1)] }

(* time.time() *)
Times == 1..MaxTime

EnvValues == { None, Some(CustomPass) }

(* What STATE_FILE may hold when the process first starts *)
GoodPair == MakeObj(Str("n1", 1), Str("d2", MAX_DATA_LEN))
Member(key, tok) == << StrTok(key), Punct(":"), tok >>
Object1(k1, t1) == << Punct("{") >> \o Member(k1, t1) \o << Punct("}") >>
Object2(k1, t1, k2, t2) ==
    << Punct("{") >> \o Member(k1, t1) \o << Punct(",") >> \o Member(k2, t2)
    \o << Punct("}") >>

TruncatedFiles == { SubSeq(JsonDump(GoodPair), 1, 8) }
NotJsonFiles == { << JunkTok >> }
NotObjectFiles == { << Punct("["), Punct("]") >> }
LackingFiles == { Object1(KeyNonce, StrTok(Str("n1", 1))),
                  Object1(KeyData, StrTok(Str("d1", 1))) }
NonStringFiles ==
    { Object2(KeyNonce, StrTok(Str("n1", 1)), KeyData, NumTok(7)) }
OversizedFiles ==
    { Object2(KeyNonce, StrTok(Str("n3", MAX_NONCE_LEN + 1)),
              KeyData, StrTok(Str("d1", 1))),
      Object2(KeyNonce, StrTok(Str("n1", 1)),
              KeyData, StrTok(Str("d3", MAX_DATA_LEN + 1))) }
EmptyFieldFiles ==
    { Object2(KeyNonce, StrTok(EmptyStr), KeyData, StrTok(Str("d1", 1))) }
WellFormedFiles ==
    { Object2(KeyData, StrTok(Str("d2", MAX_DATA_LEN)),
              KeyNonce, StrTok(Str("n1", 1))) }

BadMirrors ==
    {None} \cup { Some(f) : f \in TruncatedFiles \cup NotJsonFiles
                       \cup NotObjectFiles \cup LackingFiles
                       \cup NonStringFiles \cup OversizedFiles }
InitFiles ==
    BadMirrors \cup { Some(f) : f \in EmptyFieldFiles \cup WellFormedFiles }

-----------------------------------------------------------------------------
(* Responses *)
NoResp == [status |-> 0, key |-> "", code |-> 0, body |-> None]
(* return {"c": C_OK} *)
RespOK == [status |-> 200, key |-> "c", code |-> C_OK, body |-> None]
(* raise HTTPException(status_code=st, detail=code) *)
HTTPException(st, code) == [status |-> st, key |-> "detail", code |-> code, body |-> None]
(* JSONResponse(app.state.payload, ...) *)
JSONResponse(p) == [status |-> 200, key |-> "json", code |-> 0, body |-> p]
(* an exception other than HTTPException leaves the handler *)
ServerError == [status |-> 500, key |-> "text", code |-> 0, body |-> None]

(* by: "update", "end", "startup" or "boot" (nothing yet since the start);
   val: the pair it is about; mirrored: its disk operation went through *)
Boot == [by |-> "boot", val |-> None, mirrored |-> FALSE]

(* boot.prev: the last mutation that had returned OK when the process was
   killed; boot.quiet: no handler was running then; boot.raw: what the startup
   load found at STATE_FILE, boot.readOk: it could read it *)
Booting(prev, quiet) ==
    [at |-> "start", prev |-> prev, quiet |-> quiet, readOk |-> FALSE,
     raw |-> None]
NoBoot ==
    [at |-> "past", prev |-> Boot, quiet |-> FALSE, readOk |-> FALSE,
     raw |-> None]

StartupTask ==
    [op |-> "startup", pc |-> "s_load", x_pass |-> None, nonce |-> EmptyStr,
     data |-> EmptyStr, resp |-> NoResp, restored |-> None, disk |-> FALSE]

Init ==
    /\ env_gate \in EnvValues
    /\ payload = None
    /\ updated_at = None
    /\ lock = FALSE
    /\ file \in InitFiles
    /\ tmp = None
    /\ cur = StartupTask
    /\ lastStored = Boot
    /\ lastOK = Boot
    /\ boot = Booting(Boot, TRUE)

Idle == cur.pc = "done"

-----------------------------------------------------------------------------
(* Startup: _startup_restore *)
(* app.state.updated_at = time.time() *)
NoStamp(now) == None
Stamp(now) == Some(now)

StartupLoad ==
    /\ cur.op = "startup" /\ cur.pc = "s_load"
    /\ \E readOk \in BOOLEAN :
         LET restored == _best_effort_load(file, readOk) IN
         /\ boot' = [boot EXCEPT !.at = "loaded", !.readOk = readOk,
                                 !.raw = file]
         /\ cur' = [cur EXCEPT !.restored = restored,
                               !.pc = IF restored # None THEN "s_acquire"
                                      ELSE "done"]
    /\ UNCHANGED <<env_gate, payload, updated_at, lock, file, tmp, lastStored, lastOK>>

StartupAcquire ==
    /\ cur.op = "startup" /\ cur.pc = "s_acquire"
    /\ lock = FALSE
    /\ lock' = TRUE
    /\ cur' = [cur EXCEPT !.pc = "s_set_payload"]
    /\ UNCHANGED <<env_gate, payload, updated_at, file, tmp, lastStored, lastOK, boot>>

StartupSetPayload ==
    /\ cur.op = "startup" /\ cur.pc = "s_set_payload"
    /\ payload' = cur.restored
    /\ lastStored' = [by |-> "startup", val |-> cur.restored,
                      mirrored |-> FALSE]
    /\ cur' = [cur EXCEPT !.pc = "s_set_updated"]
    /\ UNCHANGED <<env_gate, updated_at, lock, file, tmp, lastOK, boot>>

StartupSetUpdated ==
    /\ cur.op = "startup" /\ cur.pc = "s_set_updated"
    /\ \E now \in Times : updated_at' = Stamp(now)
    /\ cur' = [cur EXCEPT !.pc = "s_release"]
    /\ UNCHANGED <<env_gate, payload, lock, file, tmp, lastStored, lastOK, boot>>

StartupRelease ==
    /\ cur.op = "startup" /\ cur.pc = "s_release"
    /\ lock' = FALSE
    /\ cur' = [cur EXCEPT !.pc = "done"]
    /\ UNCHANGED <<env_gate, payload, updated_at, file, tmp, lastStored, lastOK, boot>>

-----------------------------------------------------------------------------
(* The event loop enters the handler of a request *)
Enter(op, pc, x_pass, nonce, data) ==
    /\ Idle
    /\ cur' = [op |-> op, pc |-> pc, x_pass |-> x_pass, nonce |-> nonce,
               data |-> data, resp |-> NoResp, restored |-> None,
               disk |-> FALSE]
    /\ boot' = IF cur.op = "startup" THEN boot ELSE NoBoot
    /\ UNCHANGED <<env_gate, payload, updated_at, lock, file, tmp, lastStored, lastOK>>

EnterUpdate ==
    \E x \in Credentials(GATE_PASS), b \in Bodies :
        Enter("update", "u_auth", x, b.nonce, b.data)

EnterEnd ==
    \E x \in Credentials(GATE_PASS) :
        Enter("end", "e_auth", x, EmptyStr, EmptyStr)

EnterPayload ==
    \E x \in Credentials(GATE_PASS) :
        Enter("payload", "f_acquire", x, EmptyStr, EmptyStr)

-----------------------------------------------------------------------------
(* POST /update: update_tunnel *)
Finish(resp) == cur' = [cur EXCEPT !.pc = "done", !.resp = resp]
Goto(pc) == cur' = [cur EXCEPT !.pc = pc]

(* the response of a handler whose _auth(x_pass) did not return *)
AuthFailure(a) == IF a = "deny" THEN HTTPException(403, C_DENY) ELSE ServerError

(* app.state.payload = obj *)
StoreMerged(old, obj) ==
    IF old = None THEN Some(obj)
    ELSE Some([nonce |-> Get(old).nonce, data |-> obj.data])
StoreIfAbsent(old, obj) == IF old = None THEN Some(obj) ELSE old
StorePayload(old, obj) == Some(obj)

(* the async with block ends after the two assignments; the mirror write
   comes after the lock has been released *)
AfterAssignWrite == "w_open"
AfterAssign == "u_release"

UpdateAuth ==
    /\ cur.op = "update" /\ cur.pc = "u_auth"
    /\ LET a == _auth(cur.x_pass, GATE_PASS) IN
         IF a = "ok" THEN Goto("u_validate") ELSE Finish(AuthFailure(a))
    /\ UNCHANGED <<env_gate, payload, updated_at, lock, file, tmp, lastStored, lastOK, boot>>

UpdateValidate ==
    /\ cur.op = "update" /\ cur.pc = "u_validate"
    /\ LET v == _validate_payload(cur.nonce, cur.data) IN
         IF v = 0 THEN Goto("u_acquire") ELSE Finish(HTTPException(v, C_BAD))
    /\ UNCHANGED <<env_gate, payload, updated_at, lock, file, tmp, lastStored, lastOK, boot>>

UpdateAcquire ==
    /\ cur.op = "update" /\ cur.pc = "u_acquire"
    /\ lock = FALSE
    /\ lock' = TRUE
    /\ Goto("u_set_payload")
    /\ UNCHANGED <<env_gate, payload, updated_at, file, tmp, lastStored, lastOK, boot>>

UpdateSetPayload ==
    /\ cur.op = "update" /\ cur.pc = "u_set_payload"
    /\ payload' = StorePayload(payload, MakeObj(cur.nonce, cur.data))
    /\ lastStored' = [by |-> "update",
                      val |-> Some([nonce |-> cur.nonce, data |-> cur.data]),
                      mirrored |-> FALSE]
    /\ Goto("u_set_updated")
    /\ UNCHANGED <<env_gate, updated_at, lock, file, tmp, lastOK, boot>>

UpdateSetUpdated ==
    /\ cur.op = "update" /\ cur.pc = "u_set_updated"
    /\ \E now \in Times : updated_at' = Stamp(now)
    /\ Goto(AfterAssign)
    /\ UNCHANGED <<env_gate, payload, lock, file, tmp, lastStored, lastOK, boot>>

UpdateRelease ==
    /\ cur.op = "update" /\ cur.pc = "u_release"
    /\ lock' = FALSE
    /\ Goto("w_open")
    /\ UNCHANGED <<env_gate, payload, updated_at, file, tmp, lastStored, lastOK, boot>>

(* _atomic_write_json(STATE_FILE, obj) inside try/except Exception: a step
   that raises goes to the except clause *)
(* path.parent.mkdir(...); tmp.open("w"): creates or truncates the temp file *)
WriteOpen ==
    /\ cur.op = "update" /\ cur.pc = "w_open"
    /\ \E ok \in BOOLEAN :
         IF ok THEN tmp' = Some(<<>>) /\ Goto("w_dump")
         ELSE tmp' = tmp /\ Goto("u_except")
    /\ UNCHANGED <<env_gate, payload, updated_at, lock, file, lastStored, lastOK, boot>>

(* how much of the text json.dump has passed to the file when it ends or
   raises: nothing, the part up to the first value, or all of it *)
DumpCuts(text) == {0, 4, Len(text)}

(* after json.dump come f.flush() and os.fsync(); os.replace comes after the
   with block has closed the file *)
AfterDumpReplace == "w_replace"
AfterDump == "w_flush"

(* json.dump(obj, f, ...): a prefix of the text may have reached the file
   when the step ends; it raises when a write fails *)
WriteDump ==
    /\ cur.op = "update" /\ cur.pc = "w_dump"
    /\ LET text == JsonDump(MakeObj(cur.nonce, cur.data)) IN
       \E n \in DumpCuts(text), ok \in BOOLEAN :
         /\ tmp' = Some(SubSeq(text, 1, n))
         /\ IF ok THEN Goto(AfterDump) ELSE Goto("u_except")
    /\ UNCHANGED <<env_gate, payload, updated_at, lock, file, lastStored, lastOK, boot>>

(* f.flush(): the whole text is in the file, or it raises *)
WriteFlush ==
    /\ cur.op = "update" /\ cur.pc = "w_flush"
    /\ \E ok \in BOOLEAN :
         IF ok THEN tmp' = Some(JsonDump(MakeObj(cur.nonce, cur.data)))
                    /\ Goto("w_fsync")
         ELSE tmp' = tmp /\ Goto("u_except")
    /\ UNCHANGED <<env_gate, payload, updated_at, lock, file, lastStored, lastOK, boot>>

(* os.fsync(f.fileno()) and the close at the end of the with block *)
WriteFsync ==
    /\ cur.op = "update" /\ cur.pc = "w_fsync"
    /\ \E ok \in BOOLEAN :
         IF ok THEN Goto("w_replace") ELSE Goto("u_except")
    /\ UNCHANGED <<env_gate, payload, updated_at, lock, file, tmp, lastStored, lastOK, boot>>

(* os.replace(tmp, path): what path holds afterwards *)
ReplacedReversed(t, f) == f
Replaced(t, f) == t

WriteReplace ==
    /\ cur.op = "update" /\ cur.pc = "w_replace"
    /\ \E ok \in BOOLEAN :
         IF ok THEN /\ file' = Replaced(tmp, file) /\ tmp' = None
                    /\ cur' = [cur EXCEPT !.pc = "u_return", !.disk = TRUE]
         ELSE file' = file /\ tmp' = tmp /\ Goto("u_except")
    /\ UNCHANGED <<env_gate, payload, updated_at, lock, lastStored, lastOK, boot>>

(* except Exception: pass *)
MirrorErrorRaised == FALSE
MirrorErrorSwallowed == TRUE

UpdateExcept ==
    /\ cur.op = "update" /\ cur.pc = "u_except"
    /\ IF MirrorErrorSwallowed THEN Goto("u_return") ELSE Finish(ServerError)
    /\ UNCHANGED <<env_gate, payload, updated_at, lock, file, tmp,
                   lastStored, lastOK, boot>>

(* return {"c": C_OK} *)
UpdateReturn ==
    /\ cur.op = "update" /\ cur.pc = "u_return"
    /\ Finish(RespOK)
    /\ lastOK' = [by |-> "update",
                  val |-> Some([nonce |-> cur.nonce, data |-> cur.data]),
                  mirrored |-> cur.disk]
    /\ UNCHANGED <<env_gate, payload, updated_at, lock, file, tmp, lastStored, boot>>

-----------------------------------------------------------------------------
(* POST /end: end_tunnel *)
EndAuth ==
    /\ cur.op = "end" /\ cur.pc = "e_auth"
    /\ LET a == _auth(cur.x_pass, GATE_PASS) IN
         IF a = "ok" THEN Goto("e_acquire") ELSE Finish(AuthFailure(a))
    /\ UNCHANGED <<env_gate, payload, updated_at, lock, file, tmp, lastStored, lastOK, boot>>

EndAcquire ==
    /\ cur.op = "end" /\ cur.pc = "e_acquire"
    /\ lock = FALSE
    /\ lock' = TRUE
    /\ Goto("e_clear_payload")
    /\ UNCHANGED <<env_gate, payload, updated_at, file, tmp, lastStored, lastOK, boot>>

(* app.state.payload = None *)
ReloadedPayload == _best_effort_load(file, TRUE)
ClearedPayload == None

EndClearPayload ==
    /\ cur.op = "end" /\ cur.pc = "e_clear_payload"
    /\ payload' = ClearedPayload
    /\ lastStored' = [by |-> "end", val |-> None, mirrored |-> FALSE]
    /\ Goto("e_clear_updated")
    /\ UNCHANGED <<env_gate, updated_at, lock, file, tmp, lastOK, boot>>

(* app.state.updated_at = None *)
StampedUpdatedAt(now) == Some(now)
ClearedUpdatedAt(now) == None

EndClearUpdated ==
    /\ cur.op = "end" /\ cur.pc = "e_clear_updated"
    /\ \E now \in Times : updated_at' = ClearedUpdatedAt(now)
    /\ Goto("e_release")
    /\ UNCHANGED <<env_gate, payload, lock, file, tmp, lastStored, lastOK, boot>>

EndRelease ==
    /\ cur.op = "end" /\ cur.pc = "e_release"
    /\ lock' = FALSE
    /\ Goto("e_clear_file")
    /\ UNCHANGED <<env_gate, payload, updated_at, file, tmp, lastStored, lastOK, boot>>

(* _best_effort_clear_file: what is left at STATE_FILE; ok = FALSE when
   exists() or unlink() raises, which is swallowed *)
ClearFileKeeps(f, ok) == f
ClearFile(f, ok) == IF f # None /\ ok THEN None ELSE f

EndClearFile ==
    /\ cur.op = "end" /\ cur.pc = "e_clear_file"
    /\ \E ok \in BOOLEAN :
         /\ file' = ClearFile(file, ok)
         /\ cur' = [cur EXCEPT !.pc = "e_return", !.disk = (file = None \/ ok)]
    /\ UNCHANGED <<env_gate, payload, updated_at, lock, tmp, lastStored, lastOK, boot>>

EndReturn ==
    /\ cur.op = "end" /\ cur.pc = "e_return"
    /\ Finish(RespOK)
    /\ lastOK' = [by |-> "end", val |-> None, mirrored |-> cur.disk]
    /\ UNCHANGED <<env_gate, payload, updated_at, lock, file, tmp, lastStored, boot>>

-----------------------------------------------------------------------------
(* GET /payload: get_payload *)
PayloadAcquire ==
    /\ cur.op = "payload" /\ cur.pc = "f_acquire"
    /\ lock = FALSE
    /\ lock' = TRUE
    /\ Goto("f_read")
    /\ UNCHANGED <<env_gate, payload, updated_at, file, tmp, lastStored, lastOK, boot>>

(* if not app.state.payload: raise HTTPException(503, C_NR)
   return JSONResponse(app.state.payload) *)
get_payload_authenticated(p) ==
    IF _auth(cur.x_pass, GATE_PASS) # "ok" THEN HTTPException(403, C_DENY)
    ELSE IF p = None THEN HTTPException(503, C_NR)
    ELSE JSONResponse(p)
get_payload_body(p) ==
    IF p = None THEN HTTPException(503, C_NR) ELSE JSONResponse(p)

(* app.state.payload after get_payload has read it *)
PayloadConsumed(p) == None
PayloadAfterRead(p) == p

PayloadRead ==
    /\ cur.op = "payload" /\ cur.pc = "f_read"
    /\ cur' = [cur EXCEPT !.pc = "f_release", !.resp = get_payload_body(payload)]
    /\ payload' = PayloadAfterRead(payload)
    /\ UNCHANGED <<env_gate, updated_at, lock, file, tmp, lastStored, lastOK, boot>>

(* leaving the async with block, by return or by raise, releases the lock:
   whether the lock is held afterwards *)
HeldAfterRaise(resp) == resp.key = "detail"
HeldAfterExit(resp) == FALSE

PayloadRelease ==
    /\ cur.op = "payload" /\ cur.pc = "f_release"
    /\ lock' = HeldAfterExit(cur.resp)
    /\ Goto("done")
    /\ UNCHANGED <<env_gate, payload, updated_at, file, tmp, lastStored, lastOK, boot>>

-----------------------------------------------------------------------------
(* the process is killed and started again: memory is lost, the files and
   the environment stay *)
Crash ==
    /\ payload' = None
    /\ updated_at' = None
    /\ lock' = FALSE
    /\ cur' = StartupTask
    /\ lastStored' = Boot
    /\ lastOK' = Boot
    /\ boot' = Booting(lastOK, Idle)
    /\ UNCHANGED <<env_gate, file, tmp>>

Next ==
    \/ StartupLoad \/ StartupAcquire \/ StartupSetPayload \/ StartupSetUpdated
    \/ StartupRelease
    \/ EnterUpdate \/ EnterEnd \/ EnterPayload
    \/ UpdateAuth \/ UpdateValidate \/ UpdateAcquire \/ UpdateSetPayload
    \/ UpdateSetUpdated \/ UpdateRelease
    \/ WriteOpen \/ WriteDump \/ WriteFlush \/ WriteFsync \/ WriteReplace
    \/ UpdateExcept \/ UpdateReturn
    \/ EndAuth \/ EndAcquire \/ EndClearPayload \/ EndClearUpdated
    \/ EndRelease \/ EndClearFile \/ EndReturn
    \/ PayloadAcquire \/ PayloadRead \/ PayloadRelease
    \/ Crash

Spec == Init /\ [][Next]_vars

(* The event loop runs the coroutine it has entered up to its return: the
   steps of startup and of the handlers are taken as long as one is enabled.
   Nothing obliges a request to arrive or the process to be killed. *)
Step ==
    \/ StartupLoad \/ StartupAcquire \/ StartupSetPayload \/ StartupSetUpdated
    \/ StartupRelease
    \/ UpdateAuth \/ UpdateValidate \/ UpdateAcquire \/ UpdateSetPayload
    \/ UpdateSetUpdated \/ UpdateRelease
    \/ WriteOpen \/ WriteDump \/ WriteFlush \/ WriteFsync \/ WriteReplace
    \/ UpdateExcept \/ UpdateReturn
    \/ EndAuth \/ EndAcquire \/ EndClearPayload \/ EndClearUpdated
    \/ EndRelease \/ EndClearFile \/ EndReturn
    \/ PayloadAcquire \/ PayloadRead \/ PayloadRelease

(* a fresh deployment: no mirror file, GATE_PASS unset *)
InitFresh == Init /\ file = None /\ env_gate = None

FairSpec == InitFresh /\ [][Next]_vars /\ WF_vars(Step)

-----------------------------------------------------------------------------
(* Properties *)

ValidCredential == cur.x_pass = Some(GATE_PASS)
Requested == [nonce |-> cur.nonce, data |-> cur.data]
BadLength ==
    \/ cur.nonce.n = 0 \/ cur.nonce.n > 4096
    \/ cur.data.n = 0 \/ cur.data.n > 16384
(* a step of the handler that is running (not a kill, not a new request) *)
HandlerStep(op) == cur.op = op /\ cur.pc # "done" /\ cur'.op = op
Answered(op) == cur.op = op /\ cur.pc = "done"
Denied(resp) == resp.key = "detail" /\ resp.code = 301
BadInput(resp) == resp.key = "detail" /\ resp.code = 404
NotReady(resp) == resp.key = "detail" /\ resp.code = 503 /\ resp.body = None
Ok(resp) == resp.key = "c" /\ resp.code = 100
Returned(resp, pair) == resp.key = "json" /\ resp.body = Some(pair)

(* C1: every pair a Fetch returns is, nonce and data together, the pair of
   the one Deposit (or of the startup restore) that last assigned the slot;
   it never joins the nonce of one Deposit with the data of another. *)
C1_FetchReturnsOnePair ==
    (cur.op = "payload" /\ cur.resp.key = "json") =>
        /\ lastStored.by \in {"update", "startup"}
        /\ lastStored.val # None
        /\ cur.resp.body # None
        /\ Get(cur.resp.body).nonce = Get(lastStored.val).nonce
        /\ Get(cur.resp.body).data = Get(lastStored.val).data

C1_Witness ==
    /\ Answered("payload")
    /\ lastStored.by = "update"
    /\ Returned(cur.resp, [nonce |-> Str("n2", 4096), data |-> Str("d2", 16384)])

(* C2: a Deposit or Clear whose credential is absent, empty or different from
   the configured secret is answered DENIED (301), never OK, and none of its
   steps changes the slot, the update time or the mirror file. *)
C2_InvalidCredentialDenied ==
    [][ ((HandlerStep("update") \/ HandlerStep("end")) /\ ~ValidCredential) =>
          /\ UNCHANGED <<payload, updated_at, file>>
          /\ cur'.pc = "done" => (Denied(cur'.resp) /\ ~Ok(cur'.resp)) ]_vars

(* C3: a Deposit with the right credential is answered BAD_INPUT (404), with
   the slot, the update time and the mirror file unchanged, exactly when the
   nonce is empty or longer than 4096 or the data is empty or longer than
   16384; otherwise it is answered OK. *)
C3_BoundsEnforced ==
    [][ (HandlerStep("update") /\ ValidCredential) =>
          IF BadLength
          THEN /\ UNCHANGED <<payload, updated_at, file>>
               /\ cur'.pc = "done" => BadInput(cur'.resp)
          ELSE cur'.pc = "done" => Ok(cur'.resp) ]_vars

C3_Witness ==
    /\ Answered("update") /\ ValidCredential
    /\ cur.nonce.n = 4097
    /\ BadInput(cur.resp)
    /\ payload # None

(* C4: a Fetch answered when the last mutation that returned OK is a Deposit
   of pair P returns exactly P, whatever the slot held before that Deposit. *)
C4_FetchAfterDeposit ==
    (Answered("payload") /\ lastOK.by = "update") =>
        /\ cur.resp.status = 200
        /\ cur.resp.key = "json"
        /\ cur.resp.body = lastOK.val

C4_Witness ==
    /\ Answered("payload") /\ lastOK.by = "update"
    /\ Returned(cur.resp, [nonce |-> Str("n1", 1), data |-> Str("d1", 1)])

(* C5 as claimed: the first Fetch after a restart returns the pair of the
   Deposit that had last returned OK when the idle process was killed. *)
C5_RestartReturnsDeposit ==
    (Answered("payload") /\ boot.at = "loaded" /\ boot.quiet
        /\ boot.prev.by = "update") =>
        /\ cur.resp.key = "json"
        /\ cur.resp.body = boot.prev.val

(* C5 amended: the same, when the mirror write of that Deposit went through
   and the startup load could read the file. *)
C5_RestartReturnsMirroredDeposit ==
    (Answered("payload") /\ boot.at = "loaded" /\ boot.quiet
        /\ boot.prev.by = "update" /\ boot.prev.mirrored /\ boot.readOk) =>
        /\ cur.resp.key = "json"
        /\ cur.resp.body = boot.prev.val

C5_Witness ==
    /\ Answered("payload") /\ boot.at = "loaded" /\ boot.quiet
    /\ boot.prev.by = "update" /\ boot.prev.mirrored /\ boot.readOk
    /\ Returned(cur.resp, [nonce |-> Str("n2", 4096), data |-> Str("d2", 16384)])

(* C6: after a startup that found the mirror file missing, truncated, not
   JSON, not an object, lacking a field, or with a non-string or oversized
   field, startup has completed, and until a Deposit stores a pair the slot is
   absent and Fetch answers NOT_READY (503). *)
C6_BadMirrorIsNoMirror ==
    (boot.at = "loaded" /\ boot.raw \in BadMirrors /\ lastStored.by # "update") =>
        /\ cur.op = "startup" => cur.pc = "done"
        /\ payload = None
        /\ Answered("payload") => (NotReady(cur.resp) /\ cur.resp.status = 503)

C6_Witness ==
    /\ Answered("payload") /\ boot.at = "loaded"
    /\ boot.raw \in { Some(f) : f \in OversizedFiles }
    /\ boot.readOk
    /\ NotReady(cur.resp)

(* C7: the slot is absent or holds one pair whose nonce and data are
   non-empty, with at most 4096 and 16384 characters. *)
C7_SlotWellFormed ==
    payload # None =>
        /\ Len(payload) = 1
        /\ Get(payload).nonce.n >= 1 /\ Get(payload).nonce.n <= 4096
        /\ Get(payload).data.n >= 1 /\ Get(payload).data.n <= 16384

(* C8: the answer of Fetch is determined by the slot alone: the stored pair
   when there is one, NOT_READY when there is none, whatever credential the
   request carries. *)
C8_FetchIgnoresCredential ==
    Answered("payload") =>
        IF payload = None
        THEN NotReady(cur.resp) /\ cur.resp.status = 503
        ELSE cur.resp.key = "json" /\ cur.resp.status = 200
             /\ cur.resp.body = payload

C8_Witness ==
    /\ Answered("payload")
    /\ cur.x_pass = None
    /\ cur.resp.key = "json"

(* C9: no step of a Clear with the right credential that runs when the slot
   is absent, the update time unset and the mirror file missing changes any
   of them, and its answer is OK. *)
C9_ClearIdempotent ==
    [][ (HandlerStep("end") /\ ValidCredential
            /\ payload = None /\ updated_at = None /\ file = None) =>
          /\ payload' = None /\ updated_at' = None /\ file' = None
          /\ cur'.pc = "done" => Ok(cur'.resp) ]_vars

C9_Witness ==
    /\ Answered("end") /\ Ok(cur.resp)
    /\ lastStored.by = "end" /\ boot.at = "loaded" /\ boot.raw = None
    /\ payload = None /\ updated_at = None /\ file = None

(* C10: a Deposit with the right credential and accepted lengths whose mirror
   write failed is answered OK with the slot equal to its pair; a Clear with
   the right credential whose file deletion failed is answered OK with the
   slot absent. *)
C10_MirrorFailureInvisible ==
    /\ (Answered("update") /\ ValidCredential /\ ~BadLength /\ ~cur.disk) =>
          (Ok(cur.resp) /\ payload = Some(Requested))
    /\ (Answered("end") /\ ValidCredential /\ ~cur.disk) =>
          (Ok(cur.resp) /\ payload = None)

C10_Witness ==
    /\ Answered("update") /\ ValidCredential /\ ~cur.disk
    /\ tmp # None /\ Len(Get(tmp)) = 4
    /\ Ok(cur.resp)

(* C11: a step changes the mirror file only by removing it (Clear) or by
   putting the complete text of the pair being deposited in its place, also
   when the process is killed between the steps of a write; and what a
   startup load restores is read from a complete object at the mirror path,
   never from a part of one and never from the temp file. *)
CompleteText(pair) ==
    << Punct("{"), StrTok(Str("nonce", 5)), Punct(":"), StrTok(pair.nonce),
       Punct(","), StrTok(Str("data", 4)), Punct(":"), StrTok(pair.data),
       Punct("}") >>
HoldsComplete(f, pair) ==
    /\ f # None
    /\ Len(Get(f)) = 9
    /\ Get(f)[1].t = "{" /\ Get(f)[9].t = "}"
    /\ { <<Get(f)[2].s, Get(f)[4]>>, <<Get(f)[6].s, Get(f)[8]>> }
         = { <<Str("nonce", 5), StrTok(pair.nonce)>>,
             <<Str("data", 4), StrTok(pair.data)>> }
C11_MirrorNeverPartial ==
    [][ /\ file' # file =>
             \/ cur.op = "end" /\ file' = None
             \/ cur.op = "update" /\ file' = Some(CompleteText(Requested))
        /\ (cur.op = "startup" /\ cur'.op = "startup" /\ cur'.restored # None) =>
             HoldsComplete(file, Get(cur'.restored)) ]_vars

C11_Witness ==
    /\ cur.op = "startup" /\ cur.pc = "done"
    /\ ~boot.quiet /\ boot.prev.by = "update"
    /\ tmp # None /\ Len(Get(tmp)) = 4
    /\ payload = boot.prev.val
    /\ Get(tmp)[4] # StrTok(Get(payload).nonce)

(* C12: handlers take the lock one after the other, so the mutation that
   held the lock last is the one that has just completed: once a Deposit has
   left the lock and finished, the slot holds its pair, whatever Deposit or
   Clear completed before it; once a Clear has, the slot is absent. *)
C12_LastHolderWins ==
    /\ (cur.op = "update" /\ (cur.pc = "u_return" \/ (cur.pc = "done" /\ Ok(cur.resp)))) =>
          (payload = Some(Requested) /\ lock = FALSE)
    /\ (cur.op = "end" /\ (cur.pc = "e_return" \/ (cur.pc = "done" /\ Ok(cur.resp)))) =>
          (payload = None /\ lock = FALSE)

C12_Witness ==
    /\ cur.op = "update" /\ cur.pc = "u_return"
    /\ lastOK.by = "update" /\ lastOK.val # Some(Requested)
    /\ payload = Some(Requested)

(* C13: the answer is a function of the checks in order: Deposit answers
   DENIED when the credential is not the secret, else BAD_INPUT when a field
   is empty or too long, else OK; Clear answers DENIED or OK; Fetch answers
   the stored pair or NOT_READY. *)
C13_CodeByChecksInOrder ==
    /\ Answered("update") =>
          IF ~ValidCredential THEN Denied(cur.resp)
          ELSE IF BadLength THEN BadInput(cur.resp)
          ELSE Ok(cur.resp)
    /\ Answered("end") =>
          IF ~ValidCredential THEN Denied(cur.resp) ELSE Ok(cur.resp)
    /\ Answered("payload") => (cur.resp.key = "json" \/ NotReady(cur.resp))

(* C14: once startup is over, a step changes the slot only as a Deposit with
   the right credential and accepted lengths, to the deposited pair, or as a
   Clear with the right credential, to absent; no handler reads the mirror
   file, whatever it holds. *)
C14_SlotChangesOnlyByMutation ==
    [][ (cur.op # "startup" /\ cur'.op # "startup") =>
          /\ cur'.restored = None
          /\ payload' # payload =>
               \/ /\ cur.op = "update" /\ ValidCredential /\ ~BadLength
                  /\ payload' = Some(Requested)
               \/ /\ cur.op = "end" /\ ValidCredential
                  /\ payload' = None ]_vars

C14_Witness ==
    /\ Answered("payload") /\ NotReady(cur.resp)
    /\ payload = None
    /\ HoldsComplete(file, [nonce |-> Str("n1", 1), data |-> Str("d1", 1)])
    /\ lastOK.by = "end"

(* C15: a step that reads the mirror file, or changes it or the temp file,
   is taken with the lock free and leaves it free. *)
C15_NoDiskUnderLock ==
    [][ (file' # file \/ tmp' # tmp \/ (boot.at = "start" /\ boot'.at = "loaded")) =>
          (lock = FALSE /\ lock' = FALSE) ]_vars

C15_Witness ==
    /\ cur.op = "update" /\ cur.pc = "w_dump"
    /\ lock = FALSE
    /\ tmp = Some(<<>>)
    /\ payload = Some(Requested) /\ updated_at # None

(* C16: with the event loop running every coroutine it has entered, a handler
   that is about to take the lock finds it free, every request is answered
   (unless the process is killed first), and the lock, once held, is
   released. *)
C16_EveryRequestReturns ==
    /\ [](cur.pc \in {"s_acquire", "u_acquire", "e_acquire", "f_acquire"} => lock = FALSE)
    /\ (cur.op \in {"update", "end", "payload"} /\ cur.pc # "done")
          ~> (cur.pc = "done" \/ cur.op = "startup")
    /\ (lock = TRUE) ~> (lock = FALSE)

C16_Witness ==
    /\ Answered("payload") /\ NotReady(cur.resp) /\ cur.resp.status = 503
    /\ lock = FALSE
    /\ lastStored.by = "boot"

(* C17 as claimed: after a Clear has returned OK, a Fetch with no Deposit in
   between answers NOT_READY, in the same process and as the first request
   after the idle process has been killed and started again, whether or not
   the mirror file was deleted. *)
C17_ClearedStaysCleared ==
    /\ (Answered("payload") /\ lastOK.by = "end") => NotReady(cur.resp)
    /\ (Answered("payload") /\ boot.at = "loaded" /\ boot.quiet
          /\ boot.prev.by = "end") => NotReady(cur.resp)

(* C17 amended: the same, the restart case only when the file deletion of
   that Clear went through (or there was no file to delete). *)
C17_ClearedStaysClearedIfDeleted ==
    /\ (Answered("payload") /\ lastOK.by = "end") => NotReady(cur.resp)
    /\ (Answered("payload") /\ boot.at = "loaded" /\ boot.quiet
          /\ boot.prev.by = "end" /\ boot.prev.mirrored) => NotReady(cur.resp)

C17_Witness ==
    /\ Answered("payload") /\ boot.at = "loaded" /\ boot.quiet
    /\ boot.prev.by = "end" /\ boot.prev.mirrored
    /\ boot.readOk
    /\ NotReady(cur.resp)

(* C18: when no handler is running and the disk operation of the last
   Deposit or Clear that returned OK went through, the mirror file is missing
   exactly when the slot is absent and otherwise holds the text of the pair
   in the slot, so that loading it gives the slot back. *)
C18_MirrorAgreesWhenQuiet ==
    (Idle /\ lastOK.by \in {"update", "end"} /\ lastOK.mirrored) =>
        /\ payload = None <=> file = None
        /\ payload # None => file = Some(CompleteText(Get(payload)))
        /\ _best_effort_load(file, TRUE) = payload

C18_Witness ==
    /\ Answered("update") /\ Ok(cur.resp) /\ cur.disk
    /\ lastOK.mirrored
    /\ payload = Some(Requested)
    /\ file = Some(CompleteText(Requested))
    /\ tmp = None

(* C19: whenever the lock is free, the update time is set exactly when the
   slot holds a pair: the two are assigned, by Deposit, by the startup restore
   and by Clear, inside one locked region. *)
C19_UpdatedAtIffPresent ==
    lock = FALSE => (updated_at # None <=> payload # None)

C19_Witness ==
    /\ cur.op = "startup" /\ cur.pc = "done"
    /\ lock = FALSE
    /\ payload # None /\ updated_at # None

(* C20: no step of Fetch changes the slot, the update time, the mirror file
   or the temp file, whether it answers the pair or NOT_READY. *)
C20_FetchReadOnly ==
    [][ HandlerStep("payload") => UNCHANGED <<payload, updated_at, file, tmp>> ]_vars

C20_Witness ==
    /\ Answered("payload") /\ cur.resp.key = "json"
    /\ cur.resp.body = payload
    /\ updated_at # None
    /\ file = None

=============================================================================
